---- MODULE Spec2Model ----
(***************************************************************************)
(* Model of podcastfy/core/podcast.py: the Podcast stage controller        *)
(* (podcast_stage decorator, reset_to_state, rework, finalize) and the     *)
(* fan-out/fan-in of build_audio_segments.                                 *)
(*                                                                         *)
(* One controlling thread drives the object.  pc says where it is:         *)
(*   "idle"     - the caller is in control (top level or a rework body)    *)
(*   "finalize" - inside the while loop of Podcast.finalize                *)
(*   "synth"    - inside the body of build_audio_segments, calls in flight *)
(* last_op is a history variable: what the most recent operation did.      *)
(*                                                                         *)
(* build_audio_segments blocks the controlling thread until its calls have *)
(* been joined, so nothing of the controller interleaves with them.  Spec  *)
(* takes the stage as one step whose inputs are the outcome of every call  *)
(* and the order in which as_completed yields them; SynthSpec follows the  *)
(* same stage call by call (dispatch, completion, collection, join).       *)
(***************************************************************************)
EXTENDS Integers, Sequences, FiniteSets, TLC

\* ---- bounds of the model ------------------------------------------------
MaxSegs == 2      \* most (speaker, text) pairs one generate_text call returns
MaxLen == 2       \* longest transcript (generated segments plus appended ones)
MaxDepth == 1     \* deepest nesting of rework scopes
MaxJobs == 2      \* largest n_jobs / default_tts_n_jobs
MaxNest == 2      \* deepest nesting of rework scopes followed by NestSpec

\* ---- PodcastState -------------------------------------------------------
INITIALIZED == 0
TRANSCRIPT_BUILT == 1
AUDIO_SEGMENTS_BUILT == 2
STITCHED == 3
PodcastState == {INITIALIZED, TRANSCRIPT_BUILT, AUDIO_SEGMENTS_BUILT, STITCHED}

StageNames == {"build_transcript", "build_audio_segments", "stitch_audio_segments"}

VARIABLES
  tts_has_async,      \* self.tts_has_async
  default_tts_n_jobs,
  ctor,               \* outcome of Podcast.__init__: "ok" or "TypeError"
  state,
  _reworking,
  transcript,         \* [present, segments]; present = FALSE is None
  audio_segments,     \* sequence of clips, a clip is [transcript_segment |-> id]
  audio,              \* "none" is None, "int" the integer 0, "audio" an audio object
  scopes,             \* open rework scopes, innermost last: [original_state]
  pc,
  in_finalize,        \* the running stage was called from the finalize loop
  synth,              \* the in-flight build_audio_segments
  last_op,            \* history of the most recent operation
  trip                \* history of a rework round trip that began at STITCHED

vars == <<tts_has_async, default_tts_n_jobs, ctor, state, _reworking, transcript,
          audio_segments, audio, scopes, pc, in_finalize, synth, last_op, trip>>

\* ---- values ---------------------------------------------------------------
NoTranscript == [present |-> FALSE, segments |-> <<>>]
NoAudio == "none"
NoSynth == [active |-> FALSE, is_async |-> FALSE, n_jobs |-> 0, tasks |-> <<>>,
            started |-> 0,
            running |-> {}, finished |-> {}, failed |-> {}, collected |-> {},
            raised |-> FALSE, pre |-> <<>>]
NoOp == [op |-> "none", ran |-> {}, outcome |-> "ok", advisory |-> FALSE,
         auto_finalize |-> FALSE, reordered |-> FALSE, tick |-> 0,
         from |-> INITIALIZED, retry |-> FALSE]
NoTrip == [phase |-> "none", k |-> 0]

\* the outcomes of an operation that are an exception raised to the caller
Failures == {"error", "AttributeError", "KeyError"}

Min(a, b) == IF a < b THEN a ELSE b

\* A bound method of the instance (what self.build_transcript evaluates to)
\* and the plain function the decorator closed over are different objects.
BoundMethod(name) == [kind |-> "method", name |-> name]
Func(name) == [kind |-> "function", name |-> name]

\* self._next_stage_methods: no entry for STITCHED
_next_stage_methods ==
  [s \in {INITIALIZED, TRANSCRIPT_BUILT, AUDIO_SEGMENTS_BUILT} |->
     IF s = INITIALIZED THEN BoundMethod("build_transcript")
     ELSE IF s = TRANSCRIPT_BUILT THEN BoundMethod("build_audio_segments")
     ELSE BoundMethod("stitch_audio_segments")]

\* wrapper, line 125: the lookup raises KeyError when the state has no entry
LookupFails == state \notin DOMAIN _next_stage_methods

\* wrapper, line 126: current_method != func and not self._reworking
Skips(f) == _next_stage_methods[state] # Func(f) /\ ~_reworking

\* the state whose mapped method carries the name of func
NextStateByName(f) ==
  LET S == {s \in DOMAIN _next_stage_methods : _next_stage_methods[s].name = f}
  IN IF S = {} THEN state
     ELSE CHOOSE s \in S : \A t \in S : s <= t

\* wrapper, lines 132-133: the state whose mapped method equals func, if any
NextState(f) ==
  LET S == {s \in DOMAIN _next_stage_methods : _next_stage_methods[s] = Func(f)}
  IN IF S = {} THEN state
     ELSE CHOOSE s \in S : \A t \in S : s <= t

\* ---- construction -------------------------------------------------------
\* Podcast.__init__, lines 172-174: raise logging.warning(...) raises TypeError
CtorOutcome(n_jobs, backend) ==
  IF n_jobs > 1 /\ ~backend.is_async THEN "TypeError" ELSE "ok"

Init ==
  /\ default_tts_n_jobs \in 1..MaxJobs
  /\ \E backend \in [is_async : BOOLEAN, has_sync_and_async : BOOLEAN] :
       /\ tts_has_async = backend.has_sync_and_async
       /\ ctor = CtorOutcome(default_tts_n_jobs, backend)
  /\ state = INITIALIZED
  /\ _reworking = FALSE
  /\ transcript = NoTranscript
  /\ audio_segments = <<>>
  /\ audio = NoAudio
  /\ scopes = <<>>
  /\ pc = "idle"
  /\ in_finalize = FALSE
  /\ synth = NoSynth
  /\ last_op = NoOp
  /\ trip = NoTrip

\* Podcast(content, llm_backend, tts_backend): default_tts_n_jobs keeps the
\* default of the signature, line 145.  The value is read by the dispatch of
\* build_audio_segments only.
DefaultJobs == 1
InitDefault == Init /\ default_tts_n_jobs = DefaultJobs

Idle == ctor = "ok" /\ pc = "idle"

\* history record of an operation the caller starts now
Op(name) == [NoOp EXCEPT !.op = name]

\* ---- reset_to_state -------------------------------------------------------
ResetTranscript(target) == IF target < TRANSCRIPT_BUILT THEN NoTranscript ELSE transcript

\* the clips cleared below STITCHED, like the audio
ClipsClearedWithAudio(target) == IF target < STITCHED THEN <<>> ELSE audio_segments

ResetAudioSegments(target) == IF target < AUDIO_SEGMENTS_BUILT THEN <<>> ELSE audio_segments
ResetAudio(target) == IF target < STITCHED THEN NoAudio ELSE audio

reset_to_state(target) ==
  /\ Idle
  /\ state' = target
  /\ transcript' = ResetTranscript(target)
  /\ audio_segments' = ResetAudioSegments(target)
  /\ audio' = ResetAudio(target)
  /\ last_op' = [Op("reset_to_state") EXCEPT !.from = state]
  /\ trip' = NoTrip
  /\ UNCHANGED scopes
  /\ UNCHANGED <<tts_has_async, default_tts_n_jobs, ctor, _reworking, pc,
                 in_finalize, synth>>

\* ---- podcast_stage: the wrapper around every stage function ---------------
\* control returns to the caller of the stage function: the finalize loop
\* (fin) or the caller of the object
Ret(lo, out, fin) ==
  /\ last_op' = [lo EXCEPT !.outcome = IF fin THEN "running" ELSE out]
  /\ pc' = IF fin THEN "finalize" ELSE "idle"
  /\ in_finalize' = fin

\* an exception leaves the wrapper, and the finalize loop if there is one
Raise(lo, err) ==
  /\ last_op' = [lo EXCEPT !.outcome = err]
  /\ pc' = "idle"
  /\ in_finalize' = FALSE

\* build_transcript, lines 213-217; gen = -1: generate_text raises,
\* otherwise the number of (speaker, text) pairs it returns
NewSegments(gen) == [i \in 1..gen |-> i]

BuildTranscriptBody(gen, lo, fin) ==
  IF gen < 0
  THEN /\ Raise(lo, "error")
       /\ UNCHANGED <<state, transcript, audio_segments, audio, synth>>
  ELSE /\ transcript' = [present |-> TRUE, segments |-> NewSegments(gen)]
       /\ state' = NextState("build_transcript")
       /\ Ret(lo, "ok", fin)
       /\ UNCHANGED <<audio_segments, audio, synth>>

\* stitch_audio_segments, line 265: sum([...]) of no clips is the integer 0;
\* ok = FALSE: loading the audio of a clip raises
StitchedAudio(clips) == IF clips = <<>> THEN "int" ELSE "audio"

StitchBody(ok, lo, fin) ==
  IF ~ok /\ audio_segments # <<>>
  THEN /\ Raise(lo, "error")
       /\ UNCHANGED <<state, transcript, audio_segments, audio, synth>>
  ELSE /\ audio' = StitchedAudio(audio_segments)
       /\ state' = NextState("stitch_audio_segments")
       /\ Ret(lo, "ok", fin)
       /\ UNCHANGED <<transcript, audio_segments, synth>>

\* build_audio_segments, lines 234-255: up to the dispatch of the calls.
\* arg = 0 stands for n_jobs = None.
EffectiveJobs(arg) == IF arg = 0 THEN default_tts_n_jobs ELSE arg

\* Task p is the call for self.transcript.segments[p].
NumTasks == Len(transcript.segments)
Clip(p) == [transcript_segment |-> transcript.segments[p]]

\* one clip per segment, the i-th clip made from the i-th segment
ClipsInOrder(clips, segs) ==
  /\ Len(clips) = Len(segs)
  /\ \A i \in 1..Len(segs) : clips[i].transcript_segment = segs[i]

\* list.index: the first position holding the element
Index(seq, e) == CHOOSE i \in 1..Len(seq) : seq[i] = e /\ \A j \in 1..(i - 1) : seq[j] # e

\* list.sort(key=...), line 260: a stable sort on the position of the clip's
\* transcript segment
RECURSIVE InsertByKey(_, _, _)
InsertByKey(sorted, c, segs) ==
  IF sorted = <<>> THEN <<c>>
  ELSE IF Index(segs, sorted[Len(sorted)].transcript_segment) <= Index(segs, c.transcript_segment)
       THEN Append(sorted, c)
       ELSE Append(InsertByKey(SubSeq(sorted, 1, Len(sorted) - 1), c, segs),
                   sorted[Len(sorted)])

\* the clips left in the order in which they were collected
NoSort(clips, segs) == clips

RECURSIVE SortClips(_, _)
SortClips(clips, segs) ==
  IF clips = <<>> THEN <<>>
  ELSE InsertByKey(SortClips(SubSeq(clips, 1, Len(clips) - 1), segs),
                   clips[Len(clips)], segs)

\* asyncio.gather, line 248: the results in the order of the tasks
GatherResults == [p \in 1..NumTasks |-> Clip(p)]

\* lines 255-257: the clips appended before future.result() raises; order is
\* the order in which as_completed yields the futures
RECURSIVE CollectedClips(_, _)
CollectedClips(order, fails) ==
  IF order = <<>> \/ order[1] \in fails THEN <<>>
  ELSE <<Clip(order[1])>> \o CollectedClips(Tail(order), fails)

\* the orders in which as_completed can yield the futures
Orders == {o \in [1..NumTasks -> 1..NumTasks] : \A i, j \in 1..NumTasks : o[i] = o[j] => i = j}

\* the calls that raise: the first failure ends the stage and a second one is
\* never read, so one failing call at most is drawn
FailureSets == {{}} \cup {{p} : p \in 1..NumTasks}

\* the stage in one step
SynthesizeAll(order, fails, lo, fin) ==
  IF fails # {}
  THEN /\ audio_segments' = IF tts_has_async THEN audio_segments
                            ELSE CollectedClips(order, fails)
       /\ Raise(lo, "error")
       /\ UNCHANGED <<state, transcript, audio, synth>>
  ELSE /\ audio_segments' =
            SortClips(IF tts_has_async THEN GatherResults
                      ELSE CollectedClips(order, fails),
                      transcript.segments)
       /\ state' = NextState("build_audio_segments")
       /\ Ret(lo, "ok", fin)
       /\ UNCHANGED <<transcript, audio, synth>>

\* the stage call by call: the calls are dispatched, pc moves to "synth"
DispatchAll(n_jobs, lo, fin) ==
  /\ synth' = [NoSynth EXCEPT !.active = TRUE,
                              !.is_async = tts_has_async,
                              !.n_jobs = EffectiveJobs(n_jobs),
                              !.tasks = transcript.segments,
                              !.pre = audio_segments]
  /\ audio_segments' = IF tts_has_async THEN audio_segments ELSE <<>>
  /\ last_op' = [lo EXCEPT !.outcome = "running"]
  /\ pc' = "synth"
  /\ in_finalize' = fin
  /\ UNCHANGED <<state, transcript, audio>>

BuildAudioSegmentsBody(arg, lo, fin) ==
  IF ~transcript.present
  THEN /\ Raise(lo, "AttributeError")      \* self.transcript is None
       /\ UNCHANGED <<state, transcript, audio_segments, audio, synth>>
  ELSE IF arg.stepwise THEN DispatchAll(arg.n_jobs, lo, fin)
  ELSE \E order \in Orders, fails \in FailureSets : SynthesizeAll(order, fails, lo, fin)

\* what the capabilities a stage function calls can answer
GenInputs == -1..Min(MaxSegs, MaxLen)

\* arg: the argument of build_audio_segments, and whether the stage is
\* followed call by call
NoArg == [n_jobs |-> 0, stepwise |-> FALSE]

StageBody(f, arg, lo, fin) ==
  IF f = "build_transcript" THEN \E gen \in GenInputs : BuildTranscriptBody(gen, lo, fin)
  ELSE IF f = "build_audio_segments" THEN BuildAudioSegmentsBody(arg, lo, fin)
  ELSE \E ok \in BOOLEAN : StitchBody(ok, lo, fin)

\* podcast_stage.wrapper, lines 124-137
wrapper(f, arg, lo, fin) ==
  IF LookupFails
  THEN /\ Raise(lo, "KeyError")
       /\ UNCHANGED <<state, transcript, audio_segments, audio, synth>>
  ELSE IF Skips(f)
  THEN /\ Ret(lo, "skipped", fin)
       /\ UNCHANGED <<state, transcript, audio_segments, audio, synth>>
  ELSE StageBody(f, arg, [lo EXCEPT !.ran = @ \cup {f}], fin)

StageCall(f, arg) ==
  /\ Idle
  /\ wrapper(f, arg, Op(f), FALSE)
  /\ trip' = NoTrip
  /\ UNCHANGED scopes
  /\ UNCHANGED <<tts_has_async, default_tts_n_jobs, ctor, _reworking>>

build_transcript == StageCall("build_transcript", NoArg)

\* n_jobs only bounds how many calls are in flight at once (SynthStart); it
\* does not enter the result of the stage
build_audio_segments == StageCall("build_audio_segments", NoArg)

stitch_audio_segments == StageCall("stitch_audio_segments", NoArg)

\* build_audio_segments followed call by call
build_audio_segments_stepwise == \E n \in 0..MaxJobs :
  StageCall("build_audio_segments", [n_jobs |-> n, stepwise |-> TRUE])

\* ---- build_audio_segments: the calls in flight -----------------------------
\* every submitted call starts at once
AdmitsAll == TRUE

\* ThreadPoolExecutor(max_workers=n_jobs), asyncio.Semaphore(n_jobs): room
\* for one more call
Admits == Cardinality(synth.running) < synth.n_jobs

\* a worker of the pool (line 252) or the semaphore (lines 239-243) admits
\* the next submitted call, in submission order
SynthStart ==
  /\ pc = "synth"
  /\ synth.started < Len(synth.tasks)
  /\ Admits
  /\ synth' = [synth EXCEPT !.started = @ + 1, !.running = @ \cup {synth.started + 1}]
  /\ UNCHANGED <<tts_has_async, default_tts_n_jobs, ctor, state, _reworking, transcript,
                 audio_segments, audio, scopes, pc, in_finalize, last_op, trip>>

\* one call in flight returns (ok) or raises; gather propagates the first
\* exception, and until asyncio.run cancels them the other tasks go on
SynthComplete(p, ok) ==
  /\ pc = "synth"
  /\ p \in synth.running
  /\ synth' = [synth EXCEPT !.running = @ \ {p},
                            !.finished = @ \cup {p},
                            !.failed = IF ok THEN @ ELSE @ \cup {p},
                            !.raised = IF synth.is_async /\ ~ok THEN TRUE ELSE @]
  /\ UNCHANGED <<tts_has_async, default_tts_n_jobs, ctor, state, _reworking, transcript,
                 audio_segments, audio, scopes, pc, in_finalize, last_op, trip>>

\* lines 256-257: as_completed yields a finished future, in any order among
\* the finished ones; future.result() raises for a failed call
Collect(p) ==
  /\ pc = "synth"
  /\ ~synth.is_async
  /\ ~synth.raised
  /\ p \in synth.finished \ synth.collected
  /\ IF p \in synth.failed
     THEN /\ synth' = [synth EXCEPT !.raised = TRUE]
          /\ UNCHANGED audio_segments
     ELSE /\ synth' = [synth EXCEPT !.collected = @ \cup {p}]
          /\ audio_segments' = Append(audio_segments, Clip(p))
  /\ UNCHANGED <<tts_has_async, default_tts_n_jobs, ctor, state, _reworking, transcript,
                 audio, scopes, pc, in_finalize, last_op, trip>>

\* the pool has shut down (every submitted call has run) or asyncio.run has
\* returned (the remaining tasks are cancelled after a failure)
SynthJoined ==
  IF synth.is_async
  THEN synth.raised \/ synth.finished = 1..NumTasks
  ELSE /\ synth.started = NumTasks
       /\ synth.running = {}
       /\ synth.raised \/ synth.collected = 1..NumTasks

\* the sort of line 260 had to move a clip
Reordered ==
  ~synth.is_async /\ audio_segments # SortClips(audio_segments, transcript.segments)

SynthFinish ==
  /\ pc = "synth"
  /\ SynthJoined
  /\ synth' = NoSynth
  /\ IF synth.raised
     THEN /\ Raise(last_op, "error")
          /\ UNCHANGED <<state, audio_segments>>
     ELSE /\ audio_segments' =
               SortClips(IF synth.is_async THEN GatherResults ELSE audio_segments,
                         transcript.segments)
          /\ state' = NextState("build_audio_segments")
          /\ Ret([last_op EXCEPT !.reordered = Reordered], "ok", in_finalize)
  /\ UNCHANGED <<tts_has_async, default_tts_n_jobs, ctor, _reworking, transcript,
                 audio, scopes, trip>>

\* ---- _build_next_stage and finalize ---------------------------------------
BuildNextStage(lo, fin) ==
  IF state = STITCHED
  THEN /\ last_op' = [lo EXCEPT !.outcome = IF fin THEN "ok" ELSE "complete"]
       /\ pc' = "idle"
       /\ in_finalize' = FALSE
       /\ UNCHANGED <<state, transcript, audio_segments, audio, synth>>
  ELSE wrapper(_next_stage_methods[state].name, NoArg, lo, fin)

_build_next_stage ==
  /\ Idle
  /\ BuildNextStage(Op("advance"), FALSE)
  /\ trip' = NoTrip
  /\ UNCHANGED scopes
  /\ UNCHANGED <<tts_has_async, default_tts_n_jobs, ctor, _reworking>>

finalize ==
  /\ Idle
  /\ pc' = "finalize"
  /\ in_finalize' = TRUE
  /\ last_op' = [Op("finalize") EXCEPT
                   !.outcome = "running",
                   !.retry = (last_op.op = "finalize" /\ last_op.outcome \in Failures)]
  /\ trip' = NoTrip
  /\ UNCHANGED scopes
  /\ UNCHANGED <<tts_has_async, default_tts_n_jobs, ctor, state, _reworking, transcript,
                 audio_segments, audio, synth>>

\* one iteration of the while loop of finalize
FinalizeLoop ==
  /\ ctor = "ok"
  /\ pc = "finalize"
  /\ BuildNextStage([last_op EXCEPT !.tick = 1 - @], TRUE)
  /\ UNCHANGED <<tts_has_async, default_tts_n_jobs, ctor, _reworking, scopes, trip>>

\* ---- save and save_transcript ---------------------------------------------
\* `if self.audio:` (line 286): None and the integer 0 are false, an audio
\* object is true
Truthy(a) == a = "audio"

\* the export whenever there is an audio, whatever the state
SaveOutcomeUngated == IF Truthy(audio) THEN "exported" ELSE "ValueError(empty)"

\* save, lines 283-289
SaveOutcome ==
  IF state # STITCHED THEN "ValueError(state)"
  ELSE IF Truthy(audio) THEN "exported"
  ELSE "ValueError(empty)"

save ==
  /\ Idle
  /\ last_op' = [Op("save") EXCEPT !.outcome = SaveOutcome]
  /\ trip' = NoTrip
  /\ UNCHANGED <<tts_has_async, default_tts_n_jobs, ctor, state, _reworking, transcript,
                 audio_segments, audio, scopes, pc, in_finalize, synth>>

\* PodcastState derives from Enum, not IntEnum (line 13): its members have no
\* order, and `self.state < PodcastState.TRANSCRIPT_BUILT` (line 293) raises
\* TypeError
EnumOrdered == FALSE

\* save_transcript, lines 293-299
SaveTranscriptOutcome ==
  IF ~EnumOrdered THEN "TypeError"
  ELSE IF state < TRANSCRIPT_BUILT THEN "ValueError(state)"
  ELSE IF transcript.present THEN "saved"
  ELSE "ValueError(empty)"

save_transcript ==
  /\ Idle
  /\ last_op' = [Op("save_transcript") EXCEPT !.outcome = SaveTranscriptOutcome]
  /\ trip' = NoTrip
  /\ UNCHANGED <<tts_has_async, default_tts_n_jobs, ctor, state, _reworking, transcript,
                 audio_segments, audio, scopes, pc, in_finalize, synth>>

\* ---- rework ---------------------------------------------------------------
\* lines 193-198: up to the yield.  auto_finalize is read only by the finally
\* block, so it is an input of rework_exit.
Rework(target_state, depth) ==
  /\ Idle
  /\ Len(scopes) < depth
  /\ scopes' = Append(scopes, [original_state |-> state])
  /\ _reworking' = TRUE
  /\ IF target_state < state
     THEN /\ state' = target_state
          /\ transcript' = ResetTranscript(target_state)
          /\ audio_segments' = ResetAudioSegments(target_state)
          /\ audio' = ResetAudio(target_state)
     ELSE UNCHANGED <<state, transcript, audio_segments, audio>>
  /\ last_op' = Op("rework_enter")
  /\ trip' = IF /\ scopes = <<>> /\ state = STITCHED /\ target_state = TRANSCRIPT_BUILT
                /\ transcript.present /\ audio = "audio"
                /\ ClipsInOrder(audio_segments, transcript.segments)
             THEN [phase |-> "entered", k |-> Len(audio_segments)]
             ELSE NoTrip
  /\ UNCHANGED <<tts_has_async, default_tts_n_jobs, ctor, pc, in_finalize, synth>>

rework_enter(target_state) == Rework(target_state, MaxDepth)

\* a rework scope opened inside the body of another one
rework_nested(target_state) == Rework(target_state, MaxNest)

\* lines 202-208: the finally block; failed = the body raised
\* finalize on every earlier-than-before exit, whatever auto_finalize says
ExitFinalizesAlways(earlier, auto_finalize) == earlier

\* lines 204-208: finalize() is called when the state is earlier than at entry
\* and auto_finalize is set
ExitFinalizes(earlier, auto_finalize) == earlier /\ auto_finalize

\* the flag cleared after the body only, without the finally
FlagAfterNormalExit(failed) == IF failed THEN _reworking ELSE FALSE

\* try/finally, lines 200-203: the flag is cleared however the body ended
FlagAfterExit(failed) == FALSE

rework_exit(failed, auto_finalize) ==
  /\ Idle
  /\ scopes # <<>>
  /\ LET fr == scopes[Len(scopes)]
         earlier == state < fr.original_state
         fin == ExitFinalizes(earlier, auto_finalize)
     IN /\ scopes' = SubSeq(scopes, 1, Len(scopes) - 1)
        /\ _reworking' = FlagAfterExit(failed)
        /\ last_op' = [Op("rework_exit") EXCEPT
                         !.advisory = earlier,
                         !.auto_finalize = auto_finalize,
                         !.outcome = IF fin THEN "running"
                                     ELSE IF failed THEN "body_error" ELSE "ok"]
        /\ trip' = IF trip.phase = "appended" /\ auto_finalize /\ ~failed
                   THEN [trip EXCEPT !.phase = "exited"]
                   ELSE NoTrip
        /\ pc' = IF fin THEN "finalize" ELSE "idle"
        /\ in_finalize' = fin
  /\ UNCHANGED <<tts_has_async, default_tts_n_jobs, ctor, state, transcript,
                 audio_segments, audio, synth>>

\* the caller's mutation block, line 347: append a new TranscriptSegment
AppendSegment ==
  /\ Idle
  /\ scopes # <<>>
  /\ transcript.present
  /\ Len(transcript.segments) < MaxLen
  /\ transcript' = [transcript EXCEPT !.segments = Append(@, Len(@) + 1)]
  /\ last_op' = Op("edit")
  /\ trip' = IF trip.phase = "entered" THEN [trip EXCEPT !.phase = "appended"]
             ELSE NoTrip
  /\ UNCHANGED <<tts_has_async, default_tts_n_jobs, ctor, state, _reworking,
                 audio_segments, audio, scopes, pc, in_finalize, synth>>

\* ---- the system -----------------------------------------------------------
Next ==
  \/ build_transcript
  \/ build_audio_segments
  \/ stitch_audio_segments
  \/ _build_next_stage
  \/ finalize
  \/ FinalizeLoop
  \/ \E target \in PodcastState : reset_to_state(target)
  \/ \E target \in PodcastState : rework_enter(target)
  \/ \E failed \in BOOLEAN, auto \in BOOLEAN : rework_exit(failed, auto)
  \/ AppendSegment
  \/ save
  \/ save_transcript

Spec == InitDefault /\ [][Next]_vars

\* The controlling thread keeps running: an iteration of the finalize loop
\* that can be taken is eventually taken.
FairSpec == Spec /\ WF_vars(FinalizeLoop)

\* The same system when reset_to_state is only used to rewind (never with a
\* target later than the current state).
NextRewind ==
  \/ build_transcript
  \/ build_audio_segments
  \/ stitch_audio_segments
  \/ _build_next_stage
  \/ finalize
  \/ FinalizeLoop
  \/ \E target \in INITIALIZED..state : reset_to_state(target)
  \/ \E target \in PodcastState : rework_enter(target)
  \/ \E failed \in BOOLEAN, auto \in BOOLEAN : rework_exit(failed, auto)
  \/ AppendSegment
  \/ save
  \/ save_transcript

RewindSpec == InitDefault /\ [][NextRewind]_vars

FairRewindSpec == RewindSpec /\ WF_vars(FinalizeLoop)

\* build_audio_segments call by call: a caller that opens a rework scope,
\* builds a transcript, edits it and runs the synthesis stage.
NextSynth ==
  \/ scopes = <<>> /\ rework_enter(INITIALIZED)
  \/ build_transcript
  \/ AppendSegment
  \/ build_audio_segments_stepwise
  \/ SynthStart
  \/ \E p \in 1..MaxLen, ok \in BOOLEAN : SynthComplete(p, ok)
  \/ \E p \in 1..MaxLen : Collect(p)
  \/ SynthFinish

SynthSpec == Init /\ [][NextSynth]_vars

\* Nested rework scopes: a caller that opens scopes inside scopes and calls
\* stage functions in their bodies.
NextNest ==
  \/ \E target \in PodcastState : rework_nested(target)
  \/ \E failed \in BOOLEAN, auto \in BOOLEAN : rework_exit(failed, auto)
  \/ build_transcript
  \/ build_audio_segments
  \/ stitch_audio_segments

NestSpec == InitDefault /\ [][NextNest]_vars

TypeOK ==
  /\ state \in PodcastState
  /\ pc \in {"idle", "finalize", "synth"}
  /\ _reworking \in BOOLEAN
  /\ Len(scopes) <= MaxDepth \/ Len(scopes) <= MaxNest
  /\ Len(transcript.segments) <= MaxLen
  /\ synth.active <=> pc = "synth"

\* ======================= properties =========================================
\* the step is the caller invoking operation name
Called(name) == pc = "idle" /\ last_op'.op = name

\* the stage function the specification maps to a state
Mapped(s) ==
  IF s = INITIALIZED THEN "build_transcript"
  ELSE IF s = TRANSCRIPT_BUILT THEN "build_audio_segments"
  ELSE IF s = AUDIO_SEGMENTS_BUILT THEN "stitch_audio_segments"
  ELSE "none"

\* C1: outside a rework scope, advance() in a state other than STITCHED runs
\* exactly the stage function mapped to the state, and when that function
\* succeeds the state becomes the successor; in STITCHED it runs nothing and
\* changes no field.
AdvanceRunsMappedStage ==
  [][ (Called("advance") /\ scopes = <<>>) =>
         IF state = STITCHED
         THEN /\ last_op'.ran = {}
              /\ UNCHANGED <<state, transcript, audio_segments, audio>>
         ELSE /\ last_op'.ran = {Mapped(state)}
              /\ (last_op'.outcome = "ok" => state' = state + 1) ]_vars

\* C2: a finalize() started outside a rework scope returns, and it returns
\* with state STITCHED unless a capability failed.
FinalizeReachesStitched ==
  (pc = "finalize" /\ last_op.op = "finalize" /\ scopes = <<>>)
    ~> (/\ pc = "idle" /\ last_op.op = "finalize"
        /\ \/ last_op.outcome = "ok" /\ state = STITCHED
           \/ last_op.outcome = "error")

\* C3: whenever no operation is in flight and no rework scope is open, the
\* transcript is present iff state >= TRANSCRIPT_BUILT and the final audio is
\* present iff state = STITCHED.
PresenceInvariant ==
  (ctor = "ok" /\ pc = "idle" /\ scopes = <<>>) =>
     /\ transcript.present <=> state >= TRANSCRIPT_BUILT
     /\ audio # "none" <=> state = STITCHED

\* C4: when the body of build_audio_segments completes without a failure, for
\* any number of segments, any n_jobs and any order in which the calls
\* finished and were collected, audio_segments holds one clip per transcript
\* segment, the i-th clip made from the i-th segment.
CompletionOrderIndependence ==
  [][ (pc = "synth" /\ pc' # "synth" /\ ~synth.raised) =>
         ClipsInOrder(audio_segments', transcript.segments) ]_vars

\* C4 witness: a build of two clips that were collected in reverse order
ReorderedBuildDone ==
  /\ pc = "idle"
  /\ last_op.op = "build_audio_segments"
  /\ last_op.outcome = "ok"
  /\ last_op.reordered
  /\ Len(audio_segments) = 2
  /\ ClipsInOrder(audio_segments, transcript.segments)

\* C5: when a synthesis call fails, build_audio_segments fails, audio_segments
\* is what it was before the call and the state is unchanged.
FailFastNoPartialResult ==
  [][ (pc = "synth" /\ pc' # "synth" /\ synth.failed # {}) =>
         /\ last_op'.outcome = "error"
         /\ audio_segments' = synth.pre
         /\ state' = state ]_vars

\* C6: outside rework, a stage function that is not the one mapped to the
\* current state (any function in STITCHED) raises no error, does not run its
\* body and leaves state, transcript, audio_segments and audio unchanged.
GuardIsNoOp ==
  [][ \A f \in StageNames :
        (Called(f) /\ scopes = <<>> /\ Mapped(state) # f) =>
           /\ last_op'.outcome \notin Failures
           /\ f \notin last_op'.ran
           /\ UNCHANGED <<state, transcript, audio_segments, audio>> ]_vars

\* C7: while a rework scope is in progress (its flag set), a stage function
\* called in any state runs its body: it is neither skipped nor rejected.
ReworkRunsAnyStage ==
  [][ \A f \in StageNames :
        (Called(f) /\ scopes # <<>> /\ _reworking) =>
           /\ f \in last_op'.ran
           /\ last_op'.outcome \notin {"skipped", "KeyError"} ]_vars

\* C8: after rework(TRANSCRIPT_BUILT) entered at STITCHED with k clips, one
\* appended segment and an exit that finalizes, the pipeline comes to rest at
\* STITCHED with k + 1 clips in transcript order, the transcript builder not
\* having run.
ReworkRoundTrip ==
  (trip.phase = "exited")
    ~> (/\ trip.phase = "exited" /\ pc = "idle"
        /\ state = STITCHED
        /\ Len(audio_segments) = trip.k + 1
        /\ ClipsInOrder(audio_segments, transcript.segments)
        /\ "build_transcript" \notin last_op.ran)

\* C9: the exit of a rework scope calls finalize() iff the state is earlier
\* than at entry and auto_finalize is set; when it is earlier and
\* auto_finalize is not set, no stage function runs, the state stays, the
\* advisory is reported and the exit raises nothing.
ExitPolicy ==
  [][ Called("rework_exit") =>
        LET earlier == state < scopes[Len(scopes)].original_state
        IN /\ (pc' = "finalize") <=> (earlier /\ last_op'.auto_finalize)
           /\ (earlier /\ ~last_op'.auto_finalize) =>
                 /\ last_op'.ran = {}
                 /\ state' = state
                 /\ last_op'.advisory
                 /\ last_op'.outcome \in {"ok", "body_error"} ]_vars

\* C9 witness: a scope left earlier than entered, without auto_finalize
ExitedWithAdvisoryOnly ==
  /\ last_op.op = "rework_exit"
  /\ last_op.advisory
  /\ ~last_op.auto_finalize
  /\ pc = "idle"
  /\ state < STITCHED

\* C10: every exit of a rework scope, after a body that completed or failed,
\* leaves the flag false, and the flag is false whenever no scope is open.
FlagReleased ==
  /\ [](scopes = <<>> => ~_reworking)
  /\ [][ Called("rework_exit") => ~_reworking' ]_vars

\* C10 witness: a scope whose body failed has exited and the flag is clear
FailedBodyExited ==
  /\ last_op.op = "rework_exit"
  /\ last_op.outcome = "body_error"
  /\ scopes = <<>>
  /\ ~_reworking

\* C11: reset_to_state(target) with a target not later than the current state
\* sets the state to the target, clears the transcript exactly when the target
\* is below TRANSCRIPT_BUILT, the clips exactly when it is below
\* AUDIO_SEGMENTS_BUILT, the audio exactly when it is below STITCHED, and
\* changes nothing else.
ResetFrame ==
  [][ (Called("reset_to_state") /\ state' <= state) =>
        /\ transcript' = IF state' = INITIALIZED THEN NoTranscript ELSE transcript
        /\ audio_segments' = IF state' \in {INITIALIZED, TRANSCRIPT_BUILT}
                             THEN <<>> ELSE audio_segments
        /\ audio' = IF state' = STITCHED THEN audio ELSE NoAudio
        /\ UNCHANGED <<tts_has_async, default_tts_n_jobs, ctor, _reworking, scopes,
                       pc, in_finalize, synth>> ]_vars

\* C11 witness: a rewind from STITCHED to AUDIO_SEGMENTS_BUILT that kept the
\* transcript and the clips and left no audio
RewoundKeepingClips ==
  /\ last_op.op = "reset_to_state"
  /\ last_op.from = STITCHED
  /\ state = AUDIO_SEGMENTS_BUILT
  /\ transcript.present
  /\ audio_segments # <<>>
  /\ audio = NoAudio

\* C12: reset_to_state never moves the state forward: whatever the current
\* state and the target, the state after the call is not later than before.
ResetNeverForward ==
  [][ Called("reset_to_state") => state' <= state ]_vars

\* C13: when the stage function run by finalize() fails, finalize() raises
\* that failure, runs no later stage function and leaves the state where it
\* was; a finalize() called again after the failure, with capabilities that
\* no longer fail, completes the pipeline.
FinalizeHaltsAtFailure ==
  /\ [][ (pc = "finalize" /\ last_op.op = "finalize" /\ last_op'.outcome \in Failures) =>
           /\ pc' = "idle"
           /\ last_op'.ran = last_op.ran \cup {Mapped(state)}
           /\ state' = state ]_vars
  /\ (pc = "finalize" /\ last_op.op = "finalize" /\ last_op.retry)
       ~> (/\ pc = "idle" /\ last_op.op = "finalize"
           /\ state = STITCHED \/ last_op.outcome \in Failures)

\* C14: save_transcript fails with the invalid-state error in INITIALIZED, and
\* in every later state with a transcript present it writes the transcript
\* and raises nothing.
SaveTranscriptGated ==
  [][ Called("save_transcript") =>
        /\ state = INITIALIZED => last_op'.outcome = "ValueError(state)"
        /\ (state # INITIALIZED /\ transcript.present) => last_op'.outcome = "saved"
    ]_vars

StitchRuns ==
  /\ "stitch_audio_segments" \in last_op'.ran
  /\ \/ pc = "idle" /\ last_op'.op \in {"stitch_audio_segments", "advance"}
     \/ pc = "finalize" /\ last_op'.tick # last_op.tick

\* C16: when the stitch stage runs with no clips it fails with an error, the
\* audio stays absent and the state does not become STITCHED.
StitchEmptyFails ==
  [][ (StitchRuns /\ audio_segments = <<>>) =>
        /\ last_op'.outcome \in Failures
        /\ audio = NoAudio => audio' = NoAudio
        /\ state' # STITCHED ]_vars

\* C17: while build_audio_segments runs with n_jobs >= 1, at most n_jobs
\* synthesis calls are in flight at every moment; one call is submitted per
\* transcript segment, no call starts twice, and when the stage completes
\* every one of them has run exactly once.
ConcurrencyCap ==
  /\ [](pc = "synth" =>
          /\ synth.n_jobs >= 1
          /\ Cardinality(synth.running) <= synth.n_jobs
          /\ synth.tasks = transcript.segments
          /\ synth.started <= Len(synth.tasks)
          /\ synth.running \cup synth.finished = 1..synth.started
          /\ synth.running \cap synth.finished = {})
  /\ [][ (pc = "synth" /\ pc' # "synth" /\ ~synth.raised) =>
           /\ synth.started = Len(transcript.segments)
           /\ synth.finished = 1..Len(transcript.segments) ]_vars

\* C17 witness: the cap is reached while a submitted call still waits
CallWaitsAtCap ==
  /\ pc = "synth"
  /\ Cardinality(synth.running) = synth.n_jobs
  /\ synth.started < Len(synth.tasks)

\* C18: constructing a Podcast succeeds for every default_tts_n_jobs >= 1 and
\* for a blocking as well as a coroutine speech backend, and yields state
\* INITIALIZED with no transcript, no clips, no audio and the flag clear.
ConstructionAccepts ==
  /\ ctor = "ok"
  /\ last_op.op = "none" =>
        /\ state = INITIALIZED
        /\ ~transcript.present
        /\ audio_segments = <<>>
        /\ audio = NoAudio
        /\ ~_reworking

\* C19: the flag stays set for the whole extent of a rework scope: also after
\* a scope nested in it has exited, the flag is true while the outer scope is
\* open, and a stage function called in its body is not skipped.
FlagCoversScope ==
  /\ [](scopes # <<>> => _reworking)
  /\ [][ \A f \in StageNames :
           (Called(f) /\ scopes # <<>>) => last_op'.outcome # "skipped" ]_vars

\* C20: a stage function never moves the pipeline backwards: whatever the
\* state and the flag, and whether the call ran, was skipped or failed, the
\* state after it is not earlier than before; the state decreases only in
\* reset_to_state and in the rewind of a rework entry.
StageNeverRewinds ==
  /\ [][ (\E f \in StageNames : Called(f)) => state' >= state ]_vars
  /\ [][ state' < state => last_op'.op \in {"reset_to_state", "rework_enter"} ]_vars

\* the body of build_transcript has run in a rework scope at
\* AUDIO_SEGMENTS_BUILT, two states after the one it is mapped to
EarlierStageRanLate ==
  /\ last_op.op = "build_transcript"
  /\ "build_transcript" \in last_op.ran
  /\ last_op.outcome = "ok"
  /\ _reworking
  /\ state = AUDIO_SEGMENTS_BUILT

====
